---- MODULE Spec2Model ----
(***************************************************************************)
(* Model of the client-side job lifecycle reducer                          *)
(* (client/src/job/reducers.ts): a pure function (state, action) -> state  *)
(* over a normalized store {byId, ids} of Job entities.                    *)
(*                                                                         *)
(* A Job is a JavaScript object; it is modelled as a function from field   *)
(* names to values, so that an optional field (endTimestamp) is a field    *)
(* name that is or is not in the object's DOMAIN, and the shallow merge of *)
(* updateById is the override of one such function by another.             *)
(***************************************************************************)
EXTENDS Integers, Sequences, FiniteSets, TLC

VARIABLES state, action, pc

vars == <<state, action, pc>>

----------------------------------------------------------------------------
(* Bounds of the model: the payload values the dispatcher draws from.      *)

MaxResults == 1

JobIds == {"j1", "j2"}

Datasets == {"d1", "d2"}

(* Timestamps are opaque numbers the reducer only copies: two distinct     *)
(* values tell an overwritten timestamp from a kept one.                   *)
Timestamps == {100, 105}

(* The "merge since start" snapshots <<>>, <<1>>, <<1,2>>, ...: result     *)
(* artifact k is modelled by the number k.                                 *)
ResultSeqs == {[i \in 1..n |-> i] : n \in 0..MaxResults}

----------------------------------------------------------------------------
(* Enumerations of ./types.                                                *)

JobRunning == [CREATING |-> "CREATING", RUNNING |-> "RUNNING", DONE |-> "DONE"]

JobStatus ==
    [CREATING |-> "CREATING", IN_PROGRESS |-> "IN_PROGRESS",
     SUCCESS |-> "SUCCESS", ERROR |-> "ERROR"]

ActionTypes ==
    [CREATE |-> "CREATE", JOB_STARTED |-> "JOB_STARTED",
     TASK_RESULT |-> "TASK_RESULT", FINISH_JOB |-> "FINISH_JOB",
     JOB_ERROR |-> "JOB_ERROR"]

(* An action type of AllActions that the job reducer has no case for.      *)
OtherType == "OTHER"

(* The store's initialisation dispatch, before any application event.      *)
InitType == "@@INIT"

----------------------------------------------------------------------------
(* ../helpers/reducerHelpers                                               *)

(* {...old, ...partial}: the fields of partial override those of old.      *)
ShallowMerge(old, partial) ==
    [f \in (DOMAIN old) \cup (DOMAIN partial) |->
        IF f \in DOMAIN partial THEN partial[f] ELSE old[f]]

insertById(s, id, record) ==
    IF id \in DOMAIN s.byId
    THEN s
    ELSE [byId |-> [k \in (DOMAIN s.byId) \cup {id} |->
                        IF k = id THEN record ELSE s.byId[k]],
          ids |-> Append(s.ids, id)]

updateById(s, id, partialRecord) ==
    IF id \notin DOMAIN s.byId
    THEN s
    ELSE [byId |-> [k \in DOMAIN s.byId |->
                        IF k = id THEN ShallowMerge(s.byId[k], partialRecord)
                        ELSE s.byId[k]],
          ids |-> s.ids]

----------------------------------------------------------------------------
(* client/src/job/reducers.ts                                              *)

initialJobState == [byId |-> <<>>, ids |-> <<>>]

(* Variant of CreateRecord: the new Job is given an endTimestamp.          *)
CreateRecordWithEnd(payload) ==
    [id |-> payload.id,
     dataset |-> payload.dataset,
     running |-> JobRunning.CREATING,
     status |-> JobStatus.CREATING,
     results |-> <<>>,
     startTimestamp |-> payload.timestamp,
     endTimestamp |-> payload.timestamp]

CreateRecord(payload) ==
    [id |-> payload.id,
     dataset |-> payload.dataset,
     running |-> JobRunning.CREATING,
     status |-> JobStatus.CREATING,
     results |-> <<>>,
     startTimestamp |-> payload.timestamp]

(* Variant of JobStartedPartial: the start event also writes endTimestamp. *)
JobStartedPartialSetsEnd(payload) ==
    [running |-> JobRunning.RUNNING,
     status |-> JobStatus.IN_PROGRESS,
     startTimestamp |-> payload.timestamp,
     endTimestamp |-> payload.timestamp]

(* Variant of JobStartedPartial: startTimestamp is left out.               *)
JobStartedPartialKeepsStart(payload) ==
    [running |-> JobRunning.RUNNING,
     status |-> JobStatus.IN_PROGRESS]

JobStartedPartial(payload) ==
    [running |-> JobRunning.RUNNING,
     status |-> JobStatus.IN_PROGRESS,
     startTimestamp |-> payload.timestamp]

TaskResultPartial(payload) ==
    [results |-> payload.results]

(* Variant of FinishJobPartial: endTimestamp is left out.                  *)
FinishJobPartialNoEnd(payload) ==
    [running |-> JobRunning.DONE,
     status |-> JobStatus.SUCCESS,
     results |-> payload.results]

(* Variant of FinishJobPartial: results is left out.                       *)
FinishJobPartialNoResults(payload) ==
    [running |-> JobRunning.DONE,
     status |-> JobStatus.SUCCESS,
     endTimestamp |-> payload.timestamp]

FinishJobPartial(payload) ==
    [running |-> JobRunning.DONE,
     status |-> JobStatus.SUCCESS,
     results |-> payload.results,
     endTimestamp |-> payload.timestamp]

(* Variant of JobErrorPartial: running is left out.                        *)
JobErrorPartialKeepsRunning(payload) ==
    [status |-> JobStatus.ERROR,
     endTimestamp |-> payload.timestamp]

(* Variant of JobErrorPartial: the error event also empties results.       *)
JobErrorPartialClearsResults(payload) ==
    [running |-> JobRunning.DONE,
     status |-> JobStatus.ERROR,
     results |-> <<>>,
     endTimestamp |-> payload.timestamp]

JobErrorPartial(payload) ==
    [running |-> JobRunning.DONE,
     status |-> JobStatus.ERROR,
     endTimestamp |-> payload.timestamp]

(* Variant of CreateCase: an existing Job is overwritten by the new record. *)
CreateCaseOverwrite(s, payload) ==
    IF payload.id \in DOMAIN s.byId
    THEN [byId |-> [k \in DOMAIN s.byId |->
                        IF k = payload.id THEN CreateRecord(payload)
                        ELSE s.byId[k]],
          ids |-> s.ids]
    ELSE insertById(s, payload.id, CreateRecord(payload))

(* Variant of CreateCase: the id is appended to ids whether present or not. *)
CreateCaseAlwaysAppend(s, payload) ==
    [byId |-> insertById(s, payload.id, CreateRecord(payload)).byId,
     ids |-> Append(s.ids, payload.id)]

(* Variant of CreateCase: a new id is put at the front of ids.             *)
CreateCasePrepend(s, payload) ==
    IF payload.id \in DOMAIN s.byId
    THEN s
    ELSE [byId |-> insertById(s, payload.id, CreateRecord(payload)).byId,
          ids |-> <<payload.id>> \o s.ids]

CreateCase(s, payload) ==
    insertById(s, payload.id, CreateRecord(payload))

JobStartedCase(s, payload) ==
    updateById(s, payload.job, JobStartedPartial(payload))

(* Variant of TaskResultCase: the new results are appended to the old ones. *)
TaskResultCaseConcat(s, payload) ==
    IF payload.job \in DOMAIN s.byId
    THEN updateById(s, payload.job,
            [results |-> s.byId[payload.job].results \o payload.results])
    ELSE s

(* Variant of TaskResultCase: the update is applied to every Job.          *)
TaskResultCaseAllJobs(s, payload) ==
    IF payload.job \in DOMAIN s.byId
    THEN [byId |-> [k \in DOMAIN s.byId |->
                        ShallowMerge(s.byId[k], TaskResultPartial(payload))],
          ids |-> s.ids]
    ELSE s

(* Variant of TaskResultCase: results arriving for a DONE Job are dropped. *)
TaskResultCaseSkipsDone(s, payload) ==
    IF payload.job \in DOMAIN s.byId
       /\ s.byId[payload.job].running = JobRunning.DONE
    THEN s
    ELSE updateById(s, payload.job, TaskResultPartial(payload))

TaskResultCase(s, payload) ==
    updateById(s, payload.job, TaskResultPartial(payload))

FinishJobCase(s, payload) ==
    updateById(s, payload.job, FinishJobPartial(payload))

(* Variant of JobErrorCase: an unknown id gets a Job made of the partial.  *)
JobErrorCaseUpsert(s, payload) ==
    IF payload.job \in DOMAIN s.byId
    THEN updateById(s, payload.job, JobErrorPartial(payload))
    ELSE insertById(s, payload.job, JobErrorPartial(payload))

(* Variant of JobErrorCase: an unknown id gives an error value, no store.  *)
JobErrorCaseFails(s, payload) ==
    IF payload.job \in DOMAIN s.byId
    THEN updateById(s, payload.job, JobErrorPartial(payload))
    ELSE [error |-> "unknown job"]

JobErrorCase(s, payload) ==
    updateById(s, payload.job, JobErrorPartial(payload))

(* Variant of jobReducer: an action without a case resets the store.       *)
jobReducerResetsOnOther(s, a) ==
    CASE a.type = ActionTypes.CREATE -> CreateCase(s, a.payload)
      [] a.type = ActionTypes.JOB_STARTED -> JobStartedCase(s, a.payload)
      [] a.type = ActionTypes.TASK_RESULT -> TaskResultCase(s, a.payload)
      [] a.type = ActionTypes.FINISH_JOB -> FinishJobCase(s, a.payload)
      [] a.type = ActionTypes.JOB_ERROR -> JobErrorCase(s, a.payload)
      [] OTHER -> initialJobState

jobReducer(s, a) ==
    CASE a.type = ActionTypes.CREATE -> CreateCase(s, a.payload)
      [] a.type = ActionTypes.JOB_STARTED -> JobStartedCase(s, a.payload)
      [] a.type = ActionTypes.TASK_RESULT -> TaskResultCase(s, a.payload)
      [] a.type = ActionTypes.FINISH_JOB -> FinishJobCase(s, a.payload)
      [] a.type = ActionTypes.JOB_ERROR -> JobErrorCase(s, a.payload)
      [] OTHER -> s

----------------------------------------------------------------------------
(* The actions a dispatcher can deliver (client/src/job/actions.ts and     *)
(* client/src/channel/actions.ts payload shapes).                          *)

CreateActions ==
    {[type |-> ActionTypes.CREATE,
      payload |-> [id |-> i, dataset |-> d, timestamp |-> t]] :
        i \in JobIds, d \in Datasets, t \in Timestamps}

JobStartedActions ==
    {[type |-> ActionTypes.JOB_STARTED,
      payload |-> [job |-> i, timestamp |-> t]] :
        i \in JobIds, t \in Timestamps}

TaskResultActions ==
    {[type |-> ActionTypes.TASK_RESULT,
      payload |-> [job |-> i, results |-> r]] :
        i \in JobIds, r \in ResultSeqs}

FinishJobActions ==
    {[type |-> ActionTypes.FINISH_JOB,
      payload |-> [job |-> i, timestamp |-> t, results |-> r]] :
        i \in JobIds, t \in Timestamps, r \in ResultSeqs}

JobErrorActions ==
    {[type |-> ActionTypes.JOB_ERROR,
      payload |-> [job |-> i, timestamp |-> t]] :
        i \in JobIds, t \in Timestamps}

OtherActions == {[type |-> OtherType, payload |-> <<>>]}

InitAction == [type |-> InitType, payload |-> <<>>]

LifecycleActions ==
    JobStartedActions \cup TaskResultActions \cup FinishJobActions
        \cup JobErrorActions

(* The id an action names (payload.id for CREATE, payload.job otherwise). *)
TargetOf(a) ==
    IF a.type = ActionTypes.CREATE THEN a.payload.id ELSE a.payload.job

----------------------------------------------------------------------------
(* The store: one serial stream of dispatches, each reduced to completion. *)

(* pc[i] is how far an in-order upstream channel has got with job i: it    *)
(* is followed by SpecInOrder only; the dispatcher of Spec delivers any    *)
(* event at any time and leaves pc where Init puts it.                     *)
ChannelIdle == [i \in JobIds |-> "idle"]

Init ==
    /\ action = InitAction
    /\ state = jobReducer(initialJobState, InitAction)
    /\ pc = ChannelIdle

Create ==
    \E a \in CreateActions :
        /\ action' = a
        /\ state' = jobReducer(state, a)
        /\ UNCHANGED pc

JobStarted ==
    \E a \in JobStartedActions :
        /\ action' = a
        /\ state' = jobReducer(state, a)
        /\ UNCHANGED pc

TaskResult ==
    \E a \in TaskResultActions :
        /\ action' = a
        /\ state' = jobReducer(state, a)
        /\ UNCHANGED pc

FinishJob ==
    \E a \in FinishJobActions :
        /\ action' = a
        /\ state' = jobReducer(state, a)
        /\ UNCHANGED pc

JobError ==
    \E a \in JobErrorActions :
        /\ action' = a
        /\ state' = jobReducer(state, a)
        /\ UNCHANGED pc

Other ==
    \E a \in OtherActions :
        /\ action' = a
        /\ state' = jobReducer(state, a)
        /\ UNCHANGED pc

Next ==
    \/ Create
    \/ JobStarted
    \/ TaskResult
    \/ FinishJob
    \/ JobError
    \/ Other

Spec == Init /\ [][Next]_vars

----------------------------------------------------------------------------
(* In-order delivery per job id: one CREATE, then at most one JOB_STARTED, *)
(* then any number of TASK_RESULT, then at most one of FINISH_JOB or       *)
(* JOB_ERROR, and nothing for that id afterwards; the events of different  *)
(* ids interleave freely.                                                  *)

InOrderCreate ==
    \E a \in CreateActions :
        /\ pc[a.payload.id] = "idle"
        /\ action' = a
        /\ state' = jobReducer(state, a)
        /\ pc' = [pc EXCEPT ![a.payload.id] = "created"]

InOrderJobStarted ==
    \E a \in JobStartedActions :
        /\ pc[a.payload.job] = "created"
        /\ action' = a
        /\ state' = jobReducer(state, a)
        /\ pc' = [pc EXCEPT ![a.payload.job] = "streaming"]

InOrderTaskResult ==
    \E a \in TaskResultActions :
        /\ pc[a.payload.job] \in {"created", "streaming"}
        /\ action' = a
        /\ state' = jobReducer(state, a)
        /\ pc' = [pc EXCEPT ![a.payload.job] = "streaming"]

InOrderFinishJob ==
    \E a \in FinishJobActions :
        /\ pc[a.payload.job] \in {"created", "streaming"}
        /\ action' = a
        /\ state' = jobReducer(state, a)
        /\ pc' = [pc EXCEPT ![a.payload.job] = "ended"]

InOrderJobError ==
    \E a \in JobErrorActions :
        /\ pc[a.payload.job] \in {"created", "streaming"}
        /\ action' = a
        /\ state' = jobReducer(state, a)
        /\ pc' = [pc EXCEPT ![a.payload.job] = "ended"]

NextInOrder ==
    \/ InOrderCreate
    \/ InOrderJobStarted
    \/ InOrderTaskResult
    \/ InOrderFinishJob
    \/ InOrderJobError

SpecInOrder == Init /\ [][NextInOrder]_vars

----------------------------------------------------------------------------
(* The store alone: the same dispatcher as Spec, any event at any time,    *)
(* without the record of the last action (the reducer keeps none).         *)

StoreCreate ==
    \E a \in CreateActions :
        /\ state' = jobReducer(state, a)
        /\ UNCHANGED <<action, pc>>

StoreJobStarted ==
    \E a \in JobStartedActions :
        /\ state' = jobReducer(state, a)
        /\ UNCHANGED <<action, pc>>

StoreTaskResult ==
    \E a \in TaskResultActions :
        /\ state' = jobReducer(state, a)
        /\ UNCHANGED <<action, pc>>

StoreFinishJob ==
    \E a \in FinishJobActions :
        /\ state' = jobReducer(state, a)
        /\ UNCHANGED <<action, pc>>

StoreJobError ==
    \E a \in JobErrorActions :
        /\ state' = jobReducer(state, a)
        /\ UNCHANGED <<action, pc>>

StoreOther ==
    \E a \in OtherActions :
        /\ state' = jobReducer(state, a)
        /\ UNCHANGED <<action, pc>>

NextStore ==
    \/ StoreCreate
    \/ StoreJobStarted
    \/ StoreTaskResult
    \/ StoreFinishJob
    \/ StoreJobError
    \/ StoreOther

SpecStore == Init /\ [][NextStore]_vars

----------------------------------------------------------------------------
(* Vocabulary of the properties.                                           *)

Known(s) == DOMAIN s.byId

HasEnd(job) == "endTimestamp" \in DOMAIN job

JobFields == {"id", "dataset", "running", "status", "results", "startTimestamp"}

ConsistentPairs ==
    {<<"CREATING", "CREATING">>, <<"RUNNING", "IN_PROGRESS">>,
     <<"DONE", "SUCCESS">>, <<"DONE", "ERROR">>}

(* The job the last dispatched action names is in the store.               *)
ActedOnKnown(type) ==
    /\ action.type = type
    /\ action.payload.job \in Known(state)

(* The scenarios A to E of the reducer's test description, as values.      *)
ScenarioA ==
    jobReducer(initialJobState,
        [type |-> "CREATE",
         payload |-> [id |-> "j1", dataset |-> "d1", timestamp |-> 100]])

ScenarioB ==
    jobReducer(ScenarioA,
        [type |-> "JOB_STARTED", payload |-> [job |-> "j1", timestamp |-> 105]])

ScenarioC ==
    jobReducer(
        jobReducer(ScenarioB,
            [type |-> "TASK_RESULT",
             payload |-> [job |-> "j1", results |-> <<"r1">>]]),
        [type |-> "TASK_RESULT",
         payload |-> [job |-> "j1", results |-> <<"r1", "r2">>]])

ScenarioD ==
    jobReducer(ScenarioC,
        [type |-> "FINISH_JOB",
         payload |-> [job |-> "j1", timestamp |-> 200,
                      results |-> <<"r1", "r2", "r3">>]])

ScenarioE ==
    jobReducer(initialJobState,
        [type |-> "JOB_ERROR", payload |-> [job |-> "j1", timestamp |-> 150]])

----------------------------------------------------------------------------
(* C1: in every reachable state every Job's (running, status) is one of    *)
(* (CREATING,CREATING), (RUNNING,IN_PROGRESS), (DONE,SUCCESS),             *)
(* (DONE,ERROR).                                                           *)
C1_RunningStatusConsistent ==
    \A k \in Known(state) :
        <<state.byId[k].running, state.byId[k].status>> \in ConsistentPairs

(* A JOB_ERROR has just been reduced onto a Job while another Job runs.    *)
C1_ErrorBesideRunning ==
    /\ ActedOnKnown("JOB_ERROR")
    /\ state.byId[action.payload.job].status = "ERROR"
    /\ \E k \in Known(state) : state.byId[k].running = "RUNNING"

(* C2 as stated: in every reachable state, for every Job, endTimestamp is  *)
(* defined if and only if running = DONE.                                  *)
C2_EndTimestampIffDone ==
    \A k \in Known(state) :
        HasEnd(state.byId[k]) <=> state.byId[k].running = "DONE"

(* C2 as amended: in every reachable state, a Job with running = DONE has  *)
(* an endTimestamp and a Job with running = CREATING has none; nothing is  *)
(* promised of a Job with running = RUNNING.                               *)
C2_DoneHasEndTimestamp ==
    \A k \in Known(state) :
        /\ state.byId[k].running = "DONE" => HasEnd(state.byId[k])
        /\ state.byId[k].running = "CREATING" => ~HasEnd(state.byId[k])

(* A JOB_STARTED has just been reduced onto a Job that was DONE: the Job   *)
(* is RUNNING and still carries its endTimestamp.                          *)
C2_StartedAfterDone ==
    /\ ActedOnKnown("JOB_STARTED")
    /\ state.byId[action.payload.job].running = "RUNNING"
    /\ HasEnd(state.byId[action.payload.job])

(* C3: a CREATE whose id is already in byId returns the state unchanged    *)
(* (no overwrite, no second entry in ids), and reducing any CREATE a       *)
(* second time changes nothing.                                            *)
DuplicateCreateStep ==
    action'.type = "CREATE" =>
        /\ action'.payload.id \in Known(state) => state' = state
        /\ jobReducer(state', action') = state'

C3_DuplicateCreateIgnored == [][DuplicateCreateStep]_vars

(* A CREATE carrying another dataset has just been reduced onto an id      *)
(* whose Job is already DONE.                                              *)
C3_CreateOnDoneJob ==
    /\ action.type = "CREATE"
    /\ action.payload.id \in Known(state)
    /\ state.byId[action.payload.id].running = "DONE"
    /\ state.byId[action.payload.id].dataset # action.payload.dataset

(* C4: a JOB_STARTED, TASK_RESULT, FINISH_JOB or JOB_ERROR whose job id is *)
(* not in byId returns the input state: no Job appears and ids is          *)
(* unchanged (scenario E included).                                        *)
UnknownIdStep ==
    (/\ action'.type \in {"JOB_STARTED", "TASK_RESULT", "FINISH_JOB", "JOB_ERROR"}
     /\ action'.payload.job \notin Known(state))
        => state' = state

C4_UnknownIdIgnored ==
    [][UnknownIdStep /\ ScenarioE = [byId |-> <<>>, ids |-> <<>>]]_vars

(* A JOB_ERROR for an id never created has just been reduced in a store    *)
(* that holds another Job.                                                 *)
C4_ErrorForUnknownId ==
    /\ action.type = "JOB_ERROR"
    /\ action.payload.job \notin Known(state)
    /\ state.ids # <<>>

(* C5: in every reachable state ids and byId are in bijection: the ids of  *)
(* ids are exactly the keys of byId and none occurs twice.                 *)
C5_IdsBijection ==
    /\ {state.ids[i] : i \in DOMAIN state.ids} = Known(state)
    /\ \A i, j \in DOMAIN state.ids : state.ids[i] = state.ids[j] => i = j

(* Both ids are stored and a CREATE for a Job that has moved on has just   *)
(* been reduced.                                                           *)
C5_CreateInFullStore ==
    /\ Len(state.ids) = 2
    /\ action.type = "CREATE"
    /\ state.byId[action.payload.id].running # "CREATING"

(* C6: Jobs are independent: an event that names an id other than X        *)
(* (a CREATE of that id included) leaves the Job stored at X exactly as it *)
(* was.                                                                    *)
OtherJobsUntouchedStep ==
    \A x \in Known(state) :
        (/\ action'.type \in {"CREATE", "JOB_STARTED", "TASK_RESULT",
                              "FINISH_JOB", "JOB_ERROR"}
         /\ TargetOf(action') # x)
            => /\ x \in Known(state')
               /\ state'.byId[x] = state.byId[x]

C6_JobsIndependent == [][OtherJobsUntouchedStep]_vars

(* A FINISH_JOB has just been reduced onto one Job while the other Job is  *)
(* still exactly as its CREATE made it.                                    *)
C6_FinishBesideCreated ==
    /\ ActedOnKnown("FINISH_JOB")
    /\ state.byId[action.payload.job].running = "DONE"
    /\ \E x \in Known(state) \ {action.payload.job} :
          /\ state.byId[x].running = "CREATING"
          /\ state.byId[x].results = <<>>
          /\ ~HasEnd(state.byId[x])

(* endTimestamp appears on a Job only in a step that leaves it DONE.       *)
EndAppearsAtDoneStep ==
    \A k \in Known(state') :
        (/\ HasEnd(state'.byId[k])
         /\ ~(k \in Known(state) /\ HasEnd(state.byId[k])))
            => state'.byId[k].running = "DONE"

(* An endTimestamp that is set keeps its value over the step.              *)
EndFrozenStep ==
    \A k \in Known(state) :
        HasEnd(state.byId[k]) =>
            /\ k \in Known(state')
            /\ HasEnd(state'.byId[k])
            /\ state'.byId[k].endTimestamp = state.byId[k].endTimestamp

(* An endTimestamp that is set stays set, and its value changes only in a  *)
(* FINISH_JOB or JOB_ERROR step for that Job, to that event's timestamp.   *)
EndOverwrittenByTerminalStep ==
    \A k \in Known(state) :
        HasEnd(state.byId[k]) =>
            /\ k \in Known(state')
            /\ HasEnd(state'.byId[k])
            /\ state'.byId[k].endTimestamp # state.byId[k].endTimestamp =>
                  /\ action'.type \in {"FINISH_JOB", "JOB_ERROR"}
                  /\ action'.payload.job = k
                  /\ state'.byId[k].endTimestamp = action'.payload.timestamp

(* C7 as stated: endTimestamp is absent until the Job reaches DONE, and    *)
(* once set no later event changes its value.                              *)
C7_EndTimestampSetOnce == [][EndAppearsAtDoneStep /\ EndFrozenStep]_vars

(* C7 as amended: endTimestamp is absent until the Job reaches DONE; once  *)
(* set it is never removed, and only a later FINISH_JOB or JOB_ERROR for   *)
(* the same Job changes its value, to that event's timestamp.              *)
C7_EndTimestampChangedOnlyByTerminal ==
    [][EndAppearsAtDoneStep /\ EndOverwrittenByTerminalStep]_vars

(* A TASK_RESULT has just been reduced onto a Job that is DONE and whose   *)
(* endTimestamp is in place.                                               *)
C7_ResultAfterEnd ==
    /\ ActedOnKnown("TASK_RESULT")
    /\ state.byId[action.payload.job].running = "DONE"
    /\ HasEnd(state.byId[action.payload.job])

(* C8: a TASK_RESULT for an existing Job makes results exactly the event's *)
(* sequence (not a concatenation) and leaves every other field of the Job  *)
(* as it was, no field added; scenario C ends with results [r1, r2].       *)
TaskResultStep ==
    (/\ action'.type = "TASK_RESULT"
     /\ action'.payload.job \in Known(state))
        => LET k == action'.payload.job
               old == state.byId[k]
               new == state'.byId[k]
           IN  /\ DOMAIN new = DOMAIN old
               /\ new.results = action'.payload.results
               /\ \A f \in DOMAIN old \ {"results"} : new[f] = old[f]

C8_TaskResultReplaces ==
    [][/\ TaskResultStep
       /\ ScenarioC.byId["j1"].results = <<"r1", "r2">>]_vars

(* A TASK_RESULT with a non-empty sequence has just been reduced onto a    *)
(* running Job.                                                            *)
C8_ResultOnRunningJob ==
    /\ ActedOnKnown("TASK_RESULT")
    /\ state.byId[action.payload.job].running = "RUNNING"
    /\ state.byId[action.payload.job].results = <<1>>

(* C9: a CREATE whose id is absent adds exactly one Job with the event's   *)
(* id and dataset, running = status = CREATING, empty results,             *)
(* startTimestamp the event's timestamp and no endTimestamp, appends the   *)
(* id at the end of ids and leaves every other Job unchanged (scenario A). *)
FreshCreateStep ==
    (/\ action'.type = "CREATE"
     /\ action'.payload.id \notin Known(state))
        => LET p == action'.payload
           IN  /\ Known(state') = Known(state) \cup {p.id}
               /\ state'.byId[p.id] =
                     [id |-> p.id, dataset |-> p.dataset,
                      running |-> "CREATING", status |-> "CREATING",
                      results |-> <<>>, startTimestamp |-> p.timestamp]
               /\ DOMAIN state'.byId[p.id] = JobFields
               /\ state'.ids = Append(state.ids, p.id)
               /\ \A x \in Known(state) : state'.byId[x] = state.byId[x]

C9_CreateInsertsJob ==
    [][/\ FreshCreateStep
       /\ ScenarioA =
            [byId |-> ("j1" :> [id |-> "j1", dataset |-> "d1",
                                running |-> "CREATING", status |-> "CREATING",
                                results |-> <<>>, startTimestamp |-> 100]),
             ids |-> <<"j1">>]]_vars

(* A CREATE has just added a second Job, behind a first one that is DONE.  *)
C9_SecondJobCreated ==
    /\ action.type = "CREATE"
    /\ Len(state.ids) = 2
    /\ state.ids[2] = action.payload.id
    /\ state.byId[state.ids[2]].running = "CREATING"
    /\ state.byId[state.ids[1]].running = "DONE"

(* C10: a FINISH_JOB for an existing Job, in whatever phase, yields        *)
(* running = DONE, status = SUCCESS, results and endTimestamp those of the *)
(* event, and leaves id, dataset and startTimestamp unchanged              *)
(* (scenario D).                                                           *)
FinishJobStep ==
    (/\ action'.type = "FINISH_JOB"
     /\ action'.payload.job \in Known(state))
        => LET k == action'.payload.job
               old == state.byId[k]
               new == state'.byId[k]
           IN  /\ DOMAIN new = DOMAIN old \cup {"endTimestamp"}
               /\ new.running = "DONE"
               /\ new.status = "SUCCESS"
               /\ new.results = action'.payload.results
               /\ new.endTimestamp = action'.payload.timestamp
               /\ new.id = old.id
               /\ new.dataset = old.dataset
               /\ new.startTimestamp = old.startTimestamp

C10_FinishJobSucceeds ==
    [][/\ FinishJobStep
       /\ ScenarioD.byId["j1"] =
            [id |-> "j1", dataset |-> "d1", running |-> "DONE",
             status |-> "SUCCESS", results |-> <<"r1", "r2", "r3">>,
             startTimestamp |-> 105, endTimestamp |-> 200]]_vars

(* A FINISH_JOB carrying results and the later timestamp has just been     *)
(* reduced onto a Job started at the earlier one.                          *)
C10_FinishedWithResults ==
    /\ ActedOnKnown("FINISH_JOB")
    /\ state.byId[action.payload.job].status = "SUCCESS"
    /\ state.byId[action.payload.job].results = <<1>>
    /\ state.byId[action.payload.job].startTimestamp = 100
    /\ state.byId[action.payload.job].endTimestamp = 105

(* C11: a JOB_ERROR for an existing Job yields running = DONE,             *)
(* status = ERROR and endTimestamp the event's timestamp, and leaves       *)
(* results (not cleared), id, dataset and startTimestamp as they were.     *)
JobErrorStep ==
    (/\ action'.type = "JOB_ERROR"
     /\ action'.payload.job \in Known(state))
        => LET k == action'.payload.job
               old == state.byId[k]
               new == state'.byId[k]
           IN  /\ DOMAIN new = DOMAIN old \cup {"endTimestamp"}
               /\ new.running = "DONE"
               /\ new.status = "ERROR"
               /\ new.endTimestamp = action'.payload.timestamp
               /\ new.results = old.results
               /\ new.id = old.id
               /\ new.dataset = old.dataset
               /\ new.startTimestamp = old.startTimestamp

C11_JobErrorKeepsResults == [][JobErrorStep]_vars

(* A JOB_ERROR has just been reduced onto a Job that holds results.        *)
C11_ErrorWithResults ==
    /\ ActedOnKnown("JOB_ERROR")
    /\ state.byId[action.payload.job].status = "ERROR"
    /\ state.byId[action.payload.job].results = <<1>>

(* C12: a JOB_STARTED for an existing Job, in whatever phase (DONE         *)
(* included), sets running = RUNNING, status = IN_PROGRESS and             *)
(* startTimestamp the event's timestamp, and leaves results, id and        *)
(* dataset as they were (scenario B).                                      *)
JobStartedStep ==
    (/\ action'.type = "JOB_STARTED"
     /\ action'.payload.job \in Known(state))
        => LET k == action'.payload.job
               old == state.byId[k]
               new == state'.byId[k]
           IN  /\ DOMAIN new = DOMAIN old
               /\ new.running = "RUNNING"
               /\ new.status = "IN_PROGRESS"
               /\ new.startTimestamp = action'.payload.timestamp
               /\ new.results = old.results
               /\ new.id = old.id
               /\ new.dataset = old.dataset

C12_JobStartedOverwrites ==
    [][/\ JobStartedStep
       /\ ScenarioB.byId["j1"] =
            [id |-> "j1", dataset |-> "d1", running |-> "RUNNING",
             status |-> "IN_PROGRESS", results |-> <<>>,
             startTimestamp |-> 105]]_vars

(* A JOB_STARTED with the later timestamp has just been reduced onto a Job *)
(* that had finished at the earlier one: it is IN_PROGRESS again.          *)
C12_RestartedAfterFinish ==
    /\ ActedOnKnown("JOB_STARTED")
    /\ action.payload.timestamp = 105
    /\ state.byId[action.payload.job].status = "IN_PROGRESS"
    /\ state.byId[action.payload.job].startTimestamp = 105
    /\ HasEnd(state.byId[action.payload.job])
    /\ state.byId[action.payload.job].endTimestamp = 100

(* C13: an event whose type is none of CREATE, JOB_STARTED, TASK_RESULT,   *)
(* FINISH_JOB, JOB_ERROR returns the input state unchanged.                *)
OtherEventStep ==
    action'.type \notin {"CREATE", "JOB_STARTED", "TASK_RESULT",
                         "FINISH_JOB", "JOB_ERROR"}
        => state' = state

C13_OtherEventIgnored == [][OtherEventStep]_vars

(* An event without a case has just been reduced in a store that holds a   *)
(* finished Job.                                                           *)
C13_OtherOnFilledStore ==
    /\ action.type = OtherType
    /\ \E k \in Known(state) : state.byId[k].running = "DONE"

(* A well-formed Job and a well-formed store: what the reducer's return    *)
(* type JobReducerState holds.                                             *)
IsJob(j) ==
    /\ DOMAIN j \in {JobFields, JobFields \cup {"endTimestamp"}}
    /\ j.id \in JobIds
    /\ j.dataset \in Datasets
    /\ j.running \in {"CREATING", "RUNNING", "DONE"}
    /\ j.status \in {"CREATING", "IN_PROGRESS", "SUCCESS", "ERROR"}
    /\ j.results \in ResultSeqs
    /\ j.startTimestamp \in Timestamps
    /\ HasEnd(j) => j.endTimestamp \in Timestamps

IsStore(s) ==
    /\ DOMAIN s = {"byId", "ids"}
    /\ DOMAIN s.byId \subseteq JobIds
    /\ \A k \in DOMAIN s.byId : IsJob(s.byId[k]) /\ s.byId[k].id = k
    /\ DOMAIN s.ids = 1..Len(s.ids)
    /\ \A i \in DOMAIN s.ids : s.ids[i] \in JobIds

(* C14: the reducer is total: whatever event of the five kinds is reduced  *)
(* in whatever reachable state, with a known or an unknown id, the outcome *)
(* is a well-formed store, never an error value; a backend failure shows   *)
(* only as status = ERROR on the Job it names.                             *)
C14_ReducerTotal ==
    /\ IsStore(state)
    /\ ActedOnKnown("JOB_ERROR") =>
          state.byId[action.payload.job].status = "ERROR"

(* A JOB_ERROR has just been reduced onto one Job while the other Job has  *)
(* finished with SUCCESS.                                                  *)
C14_ErrorBesideSuccess ==
    /\ ActedOnKnown("JOB_ERROR")
    /\ state.byId[action.payload.job].status = "ERROR"
    /\ \E k \in Known(state) : state.byId[k].status = "SUCCESS"

(* C15: ids is append-only and no Job is deleted: over any single event    *)
(* the old ids is a prefix of the new one; ids grows only on a CREATE of   *)
(* an absent id, by exactly that id at the end; JOB_STARTED, TASK_RESULT,  *)
(* FINISH_JOB and JOB_ERROR leave ids, and so every position, unchanged.   *)
IdsAppendOnlyStep ==
    /\ Len(state.ids) <= Len(state'.ids)
    /\ SubSeq(state'.ids, 1, Len(state.ids)) = state.ids
    /\ Known(state) \subseteq Known(state')
    /\ state'.ids # state.ids =>
          /\ action'.type = "CREATE"
          /\ action'.payload.id \notin Known(state)
          /\ state'.ids = Append(state.ids, action'.payload.id)
    /\ action'.type \in {"JOB_STARTED", "TASK_RESULT", "FINISH_JOB", "JOB_ERROR"}
          => state'.ids = state.ids

C15_IdsAppendOnly == [][IdsAppendOnlyStep]_vars

(* A JOB_STARTED has just been reduced onto the Job at the first position  *)
(* of a store of two Jobs.                                                 *)
C15_UpdateAtFirstPosition ==
    /\ Len(state.ids) = 2
    /\ ActedOnKnown("JOB_STARTED")
    /\ action.payload.job = state.ids[1]
    /\ state.byId[state.ids[1]].running = "RUNNING"

(* C16: a Job's id and dataset are immutable: the Job stored at X has      *)
(* id = X and the dataset its first CREATE gave it, and no later event (a  *)
(* repeated CREATE for X with another dataset included) changes either.    *)
IdDatasetFrozenStep ==
    /\ \A k \in Known(state) :
          /\ k \in Known(state')
          /\ state'.byId[k].id = k
          /\ state'.byId[k].dataset = state.byId[k].dataset
    /\ (/\ action'.type = "CREATE"
        /\ action'.payload.id \notin Known(state))
          => /\ state'.byId[action'.payload.id].id = action'.payload.id
             /\ state'.byId[action'.payload.id].dataset = action'.payload.dataset

C16_IdDatasetImmutable == [][IdDatasetFrozenStep]_vars

(* A CREATE carrying another dataset has just been reduced onto the id of  *)
(* a running Job, which still has its own dataset.                         *)
C16_RecreateWithOtherDataset ==
    /\ action.type = "CREATE"
    /\ action.payload.id \in Known(state)
    /\ action.payload.dataset = "d2"
    /\ state.byId[action.payload.id].dataset = "d1"
    /\ state.byId[action.payload.id].running = "RUNNING"

(* Scenario D followed by a late TASK_RESULT carrying the older snapshot.  *)
ScenarioLateResult ==
    jobReducer(ScenarioD,
        [type |-> "TASK_RESULT",
         payload |-> [job |-> "j1", results |-> <<"r1">>]])

(* C17: out-of-order delivery is applied literally: a TASK_RESULT reduced  *)
(* after FINISH_JOB for the same Job replaces the terminal results by its  *)
(* own (stale) results, while running = DONE, status = SUCCESS and         *)
(* endTimestamp stay as FINISH_JOB set them.                               *)
LateResultStep ==
    (/\ action'.type = "TASK_RESULT"
     /\ action'.payload.job \in Known(state)
     /\ state.byId[action'.payload.job].running = "DONE"
     /\ state.byId[action'.payload.job].status = "SUCCESS")
        => LET k == action'.payload.job
               old == state.byId[k]
               new == state'.byId[k]
           IN  /\ new.results = action'.payload.results
               /\ new.running = "DONE"
               /\ new.status = "SUCCESS"
               /\ HasEnd(new)
               /\ new.endTimestamp = old.endTimestamp

C17_LateResultOverwrites ==
    [][/\ LateResultStep
       /\ ScenarioLateResult.byId["j1"] =
            [id |-> "j1", dataset |-> "d1", running |-> "DONE",
             status |-> "SUCCESS", results |-> <<"r1">>,
             startTimestamp |-> 105, endTimestamp |-> 200]]_vars

(* A TASK_RESULT carrying the empty snapshot has just been reduced onto a  *)
(* Job that finished with SUCCESS: its results are empty.                  *)
C17_StaleResultOnFinished ==
    /\ ActedOnKnown("TASK_RESULT")
    /\ action.payload.results = <<>>
    /\ state.byId[action.payload.job].status = "SUCCESS"
    /\ state.byId[action.payload.job].results = <<>>
    /\ state.byId[action.payload.job].endTimestamp = 105

PhaseRank(running) ==
    CASE running = "CREATING" -> 0
      [] running = "RUNNING" -> 1
      [] running = "DONE" -> 2

(* C18: under in-order delivery per job id, interleaved with the events of *)
(* other jobs, each Job's phase only moves forward along                   *)
(* CREATING -> RUNNING -> DONE, a Job that is DONE is never changed again, *)
(* and endTimestamp is defined exactly when running = DONE.                *)
InOrderLifecycleStep ==
    /\ \A k \in Known(state) :
          /\ k \in Known(state')
          /\ PhaseRank(state'.byId[k].running) >= PhaseRank(state.byId[k].running)
          /\ state.byId[k].running = "DONE" => state'.byId[k] = state.byId[k]
    /\ \A k \in Known(state') :
          HasEnd(state'.byId[k]) <=> state'.byId[k].running = "DONE"

C18_InOrderLifecycle == [][InOrderLifecycleStep]_vars

(* Both Jobs have been delivered to their end, one finishing with SUCCESS  *)
(* after running, the other with ERROR.                                    *)
C18_BothJobsEnded ==
    /\ \A i \in JobIds : pc[i] = "ended"
    /\ \E k \in Known(state) :
          /\ state.byId[k].status = "SUCCESS"
          /\ state.byId[k].results = <<1>>
    /\ \E k \in Known(state) : state.byId[k].status = "ERROR"

(* The events that name job id i.                                          *)
EventsFor(i) == {a \in CreateActions \cup LifecycleActions : TargetOf(a) = i}

(* Reducing a then b from s, and b then a from s, give the same Jobs, the  *)
(* same set of ids, and the same ids unless both are CREATEs.              *)
Commute(s, a, b) ==
    LET ab == jobReducer(jobReducer(s, a), b)
        ba == jobReducer(jobReducer(s, b), a)
    IN  /\ ab.byId = ba.byId
        /\ {ab.ids[i] : i \in DOMAIN ab.ids} = {ba.ids[i] : i \in DOMAIN ba.ids}
        /\ ab.ids # ba.ids => (a.type = "CREATE" /\ b.type = "CREATE")

(* C19: the outcome depends only on the input state and the events, and    *)
(* two events that name different job ids commute: reduced in either       *)
(* order from the same reachable state they give the same Job entities,    *)
(* and the same ids unless both are CREATEs (then ids may differ in order  *)
(* only).  The equation is symmetric in the two events, so each pair of    *)
(* ids is taken once.                                                      *)
C19_EventsOfDifferentJobsCommute ==
    \A pair \in {p \in SUBSET JobIds : Cardinality(p) = 2} :
        LET x == CHOOSE i \in pair : TRUE
            y == CHOOSE i \in pair : i # x
        IN  \A a \in EventsFor(x), b \in EventsFor(y) : Commute(state, a, b)

(* Both Jobs were created, j2 before j1; j1 has finished and j2 was        *)
(* restarted after its end.                                                *)
C19_InterleavedJobs ==
    /\ state.ids = <<"j2", "j1">>
    /\ state.byId["j1"].status = "SUCCESS"
    /\ state.byId["j2"].running = "RUNNING"
    /\ HasEnd(state.byId["j2"])

====
